---- MODULE Spec2Model ----
(***************************************************************************)
(* State-machine model of anchor-litesvm / litesvm-utils:                  *)
(*   - address derivation   (litesvm-utils/src/test_helpers.rs)            *)
(*   - discriminator codec  (anchor-litesvm/src/instruction.rs)            *)
(*   - instruction encoder  (anchor-litesvm/src/instruction.rs, program.rs)*)
(*   - result classifier    (litesvm-utils/src/transaction.rs)             *)
(*   - environment builders (litesvm-utils/src/builder.rs,                 *)
(*                           anchor-litesvm/src/builder.rs)                *)
(*                                                                         *)
(* Byte strings are sequences of naturals below 256; text (error           *)
(* descriptions, log lines, panic messages) is a TLA+ string, on which     *)
(* Len, \o and SubSeq work character by character.                         *)
(***************************************************************************)
EXTENDS Integers, Sequences, FiniteSets, TLC

VARIABLES
    pc,        \* "running", or "panicked" once a call has panicked (the test is over)
    curve,     \* the addresses that are valid curve points (fixed by the cryptography)
    svm,       \* the LiteSVM ledger: [slot, lamports]
    pdaIn,     \* the seeds and owner the run derives addresses from
    pdaMem,    \* the first derive_pda call of the run: [op, slot, res]
    pdaLast,   \* the latest derivation call of the run, same shape
    warps,     \* the advance_slot calls of the run: [sum, last], the sum of their
               \* arguments and the latest argument (-1 before the first call)
    encName,   \* the instruction name the run encodes with
    discLast,  \* the latest result of calculate_anchor_discriminator
    discCalls, \* how many times it was called
    encIn,     \* what Program::accounts was called with: [program_id, accounts]
    builder,   \* the InstructionBuilder in hand: [program_id, accounts, data]
    argsLog,   \* the arguments passed to args() on that builder, in call order
    ixOut,     \* the latest build: [via, program_id, accounts, argsLog, res]
    feeOnFailure, \* whether the oracle keeps the fee of a transaction that failed
    txLast,    \* the latest submission: [op, instructions, signers, pre, raw, out]
    sends,     \* how many submissions were made
    assertLast,  \* the latest call on an outcome: [op, arg, self, raw, out]
    asserts,   \* how many such calls were made
    made,      \* an outcome the test constructed itself: [result, code]
    held,      \* an outcome the test keeps: [made, now, raw], as returned and as it is
    env        \* the environment builder in hand: [kind, builder, deploys, out]

pdaVars == <<curve, pdaIn, pdaMem, pdaLast, warps>>
encVars == <<encName, discLast, discCalls, encIn, builder, argsLog, ixOut>>
txVars == <<feeOnFailure, txLast, sends, assertLast, asserts, made, held>>
vars == <<pc, svm, pdaVars, encVars, txVars, env>>

None == [some |-> FALSE]
Some(v) == [some |-> TRUE, val |-> v]

Ok(v) == [ok |-> TRUE, val |-> v]
Err(e) == [ok |-> FALSE, err |-> e]

(***************************************************************************)
(* Bounds of the model.                                                    *)
(***************************************************************************)
NumAddr == 4        \* size of the address space 0 .. NumAddr-1
MaxSeedCount == 2   \* longest seed list the model draws
MaxSlot == 2        \* the clock is advanced no further than this
MaxAccounts == 2    \* longest account list the model draws
MaxArgsCalls == 2   \* args() is called at most this often on one builder
MaxDiscCalls == 2   \* calculate_anchor_discriminator is called at most this often
MaxSends == 2       \* submissions in one run
MaxAsserts == 2     \* assertions in one run
MaxPrograms == 3    \* deploy_program calls on one builder

Address == 0 .. (NumAddr - 1)
Keypairs == {0, 3}  \* addresses backed by a private key
ProgramIds == {1, 2}

(***************************************************************************)
(* Cryptographic primitives.  SHA-256 is a fixed pure function from byte   *)
(* input to 32-byte digests; the stand-in below is one such function: it   *)
(* absorbs the input slice by slice (hashv) and every byte of a slice      *)
(* counts.  Which addresses are curve points is drawn in Init, so that     *)
(* every pattern of on-curve / off-curve candidates is explored.           *)
(***************************************************************************)
Absorb(h, v) == (h * 31 + v + 1) % 65521

SliceValOf(bytes) ==
    LET f[i \in 0 .. Len(bytes)] == IF i = 0 THEN Len(bytes) ELSE Absorb(f[i - 1], bytes[i])
    IN  f[Len(bytes)]

\* The value of one input slice (the argument is evaluated once).
SliceVal(bytes) == CHOOSE h \in {SliceValOf(v) : v \in {bytes}} : TRUE

\* The hasher state after the slice values vals, starting from state h0.
AbsorbAllOf(vals, h0) ==
    LET g[i \in 0 .. Len(vals)] == IF i = 0 THEN h0 ELSE Absorb(g[i - 1], vals[i])
    IN  g[Len(vals)]

AbsorbAll(vals, h0) == CHOOSE h \in {AbsorbAllOf(v, h0) : v \in {vals}} : TRUE

\* finalize(): the 32 bytes of the digest of a hasher state.
Finalize(h) == [i \in 1 .. 32 |-> (h * (2 * i - 1) + (i - 1)) % 256]

\* sha256 of one byte string: Sha256::new(), update(bytes), finalize().
Sha256(bytes) == Finalize(Absorb(7, SliceVal(bytes)))

\* A 32-byte digest read as an address of the (bounded) address space.
PubkeyOf(digest) == digest[1] % NumAddr

\* The bytes of an address, as they enter a hash.
PubkeyBytes(a) == <<a>>

is_on_curve(a) == a \in curve

MAX_SEED_LEN == 32
MAX_SEEDS == 16
BUMP_MAX == 255

\* "ProgramDerivedAddress"
PDA_MARKER == <<80, 114, 111, 103, 114, 97, 109, 68, 101, 114, 105, 118, 101, 100,
                65, 100, 100, 114, 101, 115, 115>>
PDA_MARKER_VAL == SliceVal(PDA_MARKER)

\* The candidate address of a seed list under an owner:
\* the digest of seed_1, ..., seed_n, owner, domain tag.
Candidate(seeds, program_id) ==
    PubkeyOf(Finalize(Absorb(Absorb(AbsorbAll([i \in 1 .. Len(seeds) |-> SliceVal(seeds[i])], 7),
                                    SliceVal(PubkeyBytes(program_id))),
                             PDA_MARKER_VAL)))

SeedsValid(seeds) ==
    /\ Len(seeds) <= MAX_SEEDS
    /\ \A i \in 1 .. Len(seeds) : Len(seeds[i]) <= MAX_SEED_LEN

create_program_address(seeds, program_id) ==
    IF ~SeedsValid(seeds) THEN [ok |-> FALSE, err |-> "InvalidSeeds"]
    ELSE IF is_on_curve(Candidate(seeds, program_id))
         THEN [ok |-> FALSE, err |-> "OnCurve"]
         ELSE [ok |-> TRUE, address |-> Candidate(seeds, program_id)]

\* The bump seeds in the order the search tries them: 255, 254, ..., 0.
Tried(k) == BUMP_MAX - k

\* The search stops at the first bump, in that order, whose candidate is accepted.
find_program_address(seeds, program_id) ==
    LET Accepted(k) == create_program_address(Append(seeds, <<Tried(k)>>), program_id).ok
    IN  IF ~SeedsValid(Append(seeds, <<BUMP_MAX>>))
        THEN [ok |-> FALSE, err |-> "InvalidSeeds"]
        ELSE IF \E k \in 0 .. BUMP_MAX : Accepted(k)
        THEN CHOOSE r \in
                 {[ok |-> TRUE, bump |-> Tried(k),
                   address |-> Candidate(Append(seeds, <<Tried(k)>>), program_id)] :
                      k \in {CHOOSE k \in 0 .. BUMP_MAX :
                                 Accepted(k) /\ \A j \in 0 .. (k - 1) : ~Accepted(j)}} : TRUE
        ELSE [ok |-> FALSE, err |-> "NoValidBump"]

(***************************************************************************)
(* TestHelpers for LiteSVM: address derivation.                            *)
(* A call returns [kind |-> "ok", val |-> ...] or panics                   *)
(* ([kind |-> "panic"]): the signatures return plain values, no Result.    *)
(***************************************************************************)
Returned(v) == [kind |-> "ok", val |-> v]
Panicked == [kind |-> "panic"]

\* Faulty variant: no bump search, the candidate of bump 255 is returned as it is
derive_pda_no_search(self, seeds, program_id) ==
    IF ~SeedsValid(Append(seeds, <<BUMP_MAX>>)) THEN Panicked
    ELSE Returned(<<Candidate(Append(seeds, <<BUMP_MAX>>), program_id), BUMP_MAX>>)

\* Faulty variant: the search runs upwards and returns the lowest accepted bump
derive_pda_lowest(self, seeds, program_id) ==
    LET Accepted(b) == create_program_address(Append(seeds, <<b>>), program_id).ok
    IN  IF ~find_program_address(seeds, program_id).ok THEN Panicked
        ELSE CHOOSE r \in
                 {Returned(<<Candidate(Append(seeds, <<b>>), program_id), b>>) :
                      b \in {CHOOSE b \in 0 .. BUMP_MAX :
                                 Accepted(b) /\ \A c \in 0 .. (b - 1) : ~Accepted(c)}} : TRUE

\* Faulty variant: the derivation reads the ledger (the clock) it is called on
derive_pda_reads_ledger(self, seeds, program_id) ==
    LET r == find_program_address(Append(seeds, <<self.slot>>), program_id)
    IN  IF r.ok THEN Returned(<<r.address, r.bump>>) ELSE Panicked

derive_pda(self, seeds, program_id) ==
    LET r == find_program_address(seeds, program_id)
    IN  IF r.ok THEN Returned(<<r.address, r.bump>>) ELSE Panicked

\* Faulty variant: the address of bump 255 is returned without a search
get_pda_no_search(self, seeds, program_id) ==
    LET r == derive_pda_no_search(self, seeds, program_id)
    IN  IF r.kind = "ok" THEN Returned(r.val[1]) ELSE Panicked

get_pda(self, seeds, program_id) ==
    LET r == derive_pda(self, seeds, program_id)
    IN  IF r.kind = "ok" THEN Returned(r.val[1]) ELSE Panicked

get_pda_with_bump(self, seeds, program_id) == derive_pda(self, seeds, program_id)

get_current_slot(self) == self.slot

RECURSIVE WarpLoop(_, _, _, _)
WarpLoop(self, current_slot, i, slots) ==
    IF i >= slots THEN self
    ELSE WarpLoop([self EXCEPT !.slot = current_slot + i + 1], current_slot, i + 1, slots)

\* Faulty variant: the loop counts from slot 0, not from the current slot
advance_slot_from_zero(self, slots) == WarpLoop(self, 0, 0, slots)

advance_slot(self, slots) == WarpLoop(self, self.slot, 0, slots)

(***************************************************************************)
(* Borsh (AnchorSerialize): the fixed binary layout of typed values.       *)
(* A value is [t, of, v]: its type tag, the types the tag is applied to    *)
(* (the element type of a list or an optional, the field types of a        *)
(* record), and its content.  A type is [t, of].  A struct's arguments are *)
(* the sequence of its fields.                                             *)
(*   u64     v is the number in four 16-bit limbs, lowest first            *)
(*   bool    v is TRUE or FALSE                                            *)
(*   string  v is the UTF-8 bytes                                          *)
(*   vec     v is the sequence of the elements                             *)
(*   option  v is <<>> (None) or <<x>> (Some(x))                           *)
(*   struct  v is the sequence of the fields                               *)
(***************************************************************************)
\* A u64 below 2^31.
U64(n) == [t |-> "u64", of |-> <<>>, v |-> <<n % 65536, (n \div 65536) % 65536, 0, 0>>]
Bool(b) == [t |-> "bool", of |-> <<>>, v |-> b]

\* Byte i (1-based, little-endian) of a natural below 2^31.
LEByte(n, i) ==
    IF i = 1 THEN n % 256
    ELSE IF i = 2 THEN (n \div 256) % 256
    ELSE IF i = 3 THEN (n \div 65536) % 256
    ELSE IF i = 4 THEN (n \div 16777216) % 256
    ELSE 0

LEBytes(n, width) == [i \in 1 .. width |-> LEByte(n, i)]

RECURSIVE SerializeField(_), SerializeFields(_)
SerializeField(x) ==
    IF x.t = "u64"
    THEN [i \in 1 .. 8 |-> IF i % 2 = 1 THEN x.v[(i + 1) \div 2] % 256
                           ELSE x.v[i \div 2] \div 256]
    ELSE IF x.t = "bool" THEN <<IF x.v THEN 1 ELSE 0>>
    ELSE IF x.t = "string" THEN LEBytes(Len(x.v), 4) \o x.v
    ELSE IF x.t = "vec" THEN LEBytes(Len(x.v), 4) \o SerializeFields(x.v)
    ELSE IF x.t = "option"
         THEN (IF x.v = <<>> THEN <<0>> ELSE <<1>> \o SerializeField(x.v[1]))
    ELSE IF x.t = "struct" THEN SerializeFields(x.v)
    ELSE <<>>

SerializeFields(fields) ==
    LET f[i \in 0 .. Len(fields)] ==
            IF i = 0 THEN <<>> ELSE f[i - 1] \o SerializeField(fields[i])
    IN  f[Len(fields)]

\* BorshDeserialize of the values of types tys, one after the other, from the
\* front of bytes: the values and the bytes left over, or a failure.
\* A length prefix with a non-zero third or fourth byte is at least 65536.
RECURSIVE Deserialize(_, _)
Deserialize(tys, bytes) ==
    IF tys = <<>> THEN [ok |-> TRUE, val |-> <<>>, rest |-> bytes]
    ELSE
        LET ty == Head(tys)
            Fail == [ok |-> FALSE, val |-> <<>>, rest |-> bytes]
            Value(v, rest) ==
                [ok |-> TRUE, val |-> <<[t |-> ty.t, of |-> ty.of, v |-> v]>>, rest |-> rest]
            Drop(k) == SubSeq(bytes, k + 1, Len(bytes))
            len == IF bytes[3] = 0 /\ bytes[4] = 0 THEN bytes[1] + 256 * bytes[2] ELSE 65536
            Inner(of, from) ==
                LET r == Deserialize(of, from)
                IN  IF r.ok THEN Value(r.val, r.rest) ELSE Fail
            first ==
                IF ty.t = "u64"
                THEN IF Len(bytes) < 8 THEN Fail
                     ELSE Value([i \in 1 .. 4 |-> bytes[2 * i - 1] + 256 * bytes[2 * i]], Drop(8))
                ELSE IF ty.t = "bool"
                THEN IF Len(bytes) < 1 THEN Fail
                     ELSE IF bytes[1] \notin {0, 1} THEN Fail
                     ELSE Value(bytes[1] = 1, Drop(1))
                ELSE IF ty.t = "string"
                THEN IF Len(bytes) < 4 THEN Fail
                     ELSE IF len > Len(bytes) - 4 THEN Fail
                     ELSE Value(SubSeq(bytes, 5, 4 + len), Drop(4 + len))
                ELSE IF ty.t = "vec"
                THEN IF Len(bytes) < 4 THEN Fail
                     ELSE Inner([i \in 1 .. len |-> ty.of[1]], Drop(4))
                ELSE IF ty.t = "option"
                THEN IF Len(bytes) < 1 THEN Fail
                     ELSE IF bytes[1] \notin {0, 1} THEN Fail
                     ELSE IF bytes[1] = 0 THEN Value(<<>>, Drop(1))
                     ELSE Inner(ty.of, Drop(1))
                ELSE IF ty.t = "struct" THEN Inner(ty.of, bytes)
                ELSE Fail
            more == Deserialize(Tail(tys), first.rest)
        IN  IF ~first.ok THEN Fail
            ELSE IF ~more.ok THEN Fail
            ELSE [ok |-> TRUE, val |-> first.val \o more.val, rest |-> more.rest]

\* args.serialize(&mut data): the bytes appended to data, or an io error.
\* A value is [fails, fields]; an implementation may refuse to serialize.
Serialize(args, data) ==
    IF args.fails THEN Err("io error") ELSE Ok(data \o SerializeFields(args.fields))

(***************************************************************************)
(* anchor-litesvm/src/instruction.rs                                       *)
(***************************************************************************)
\* "global:"
GLOBAL_PREFIX == <<103, 108, 111, 98, 97, 108, 58>>

\* Faulty variant: the digest is cut after 4 bytes
calculate_anchor_discriminator_short(instruction_name) ==
    SubSeq(Sha256(GLOBAL_PREFIX \o instruction_name), 1, 4)

calculate_anchor_discriminator(instruction_name) ==
    SubSeq(Sha256(GLOBAL_PREFIX \o instruction_name), 1, 8)

\* Faulty variant: the arguments are serialized without the discriminator in front
build_anchor_instruction_no_disc(program_id, instruction_name, accounts, args) ==
    LET data == Serialize(args, <<>>)
    IN  IF ~data.ok THEN Err(data.err)
        ELSE Ok([program_id |-> program_id, accounts |-> accounts, data |-> data.val])

build_anchor_instruction(program_id, instruction_name, accounts, args) ==
    LET data == Serialize(args, calculate_anchor_discriminator(instruction_name))
    IN  IF ~data.ok THEN Err(data.err)
        ELSE Ok([program_id |-> program_id, accounts |-> accounts, data |-> data.val])

(***************************************************************************)
(* anchor-litesvm/src/program.rs                                           *)
(***************************************************************************)
\* AccountMeta::new / AccountMeta::new_readonly
AccountMeta_new(pubkey, is_signer) ==
    [pubkey |-> pubkey, is_signer |-> is_signer, is_writable |-> TRUE]
AccountMeta_new_readonly(pubkey, is_signer) ==
    [pubkey |-> pubkey, is_signer |-> is_signer, is_writable |-> FALSE]

\* InstructionData::data() of the argument types.  impl is
\*   "TestArgs":  the hand-written implementation of program.rs' tests,
\*                DISCRIMINATOR [1..8] followed by the serialized amount;
\*   "Generated": what #[program] generates for instruction `name`,
\*                sha256("global:<name>")[..8] followed by the serialized fields;
\*   "Raw":       an implementation returning the bytes `raw` as they are.
TestArgs_DISCRIMINATOR == <<1, 2, 3, 4, 5, 6, 7, 8>>

InstructionData_data(args) ==
    IF args.impl = "TestArgs" THEN TestArgs_DISCRIMINATOR \o SerializeFields(args.fields)
    ELSE IF args.impl = "Generated"
         THEN calculate_anchor_discriminator(args.name) \o SerializeFields(args.fields)
         ELSE args.raw

Program_new(program_id) == [program_id |-> program_id]

\* ToAccountMetas::to_account_metas(None): the account list of an accounts value.
to_account_metas(accounts) == accounts

Program_accounts(self, accounts) ==
    [program_id |-> self.program_id,
     accounts |-> to_account_metas(accounts),
     data |-> <<>>]

\* Faulty variant: args() appends to the payload it finds
InstructionBuilder_args_append(self, args) ==
    [self EXCEPT !.data = self.data \o InstructionData_data(args)]

InstructionBuilder_args(self, args) ==
    [self EXCEPT !.data = InstructionData_data(args)]

MISSING_PAYLOAD == "No instruction data provided. Call .args() before .instruction()"

\* Faulty variant: no check of the payload
InstructionBuilder_instruction_unchecked(self) ==
    Ok([program_id |-> self.program_id, accounts |-> self.accounts, data |-> self.data])

\* Faulty variant: the account list comes out reversed
InstructionBuilder_instruction_reversed(self) ==
    IF self.data = <<>> THEN Err(MISSING_PAYLOAD)
    ELSE Ok([program_id |-> self.program_id,
             accounts |-> [i \in 1 .. Len(self.accounts) |->
                              self.accounts[Len(self.accounts) + 1 - i]],
             data |-> self.data])

\* Faulty variant: a payload too short to hold a discriminator is refused too
InstructionBuilder_instruction_min8(self) ==
    IF Len(self.data) < 8 THEN Err(MISSING_PAYLOAD)
    ELSE Ok([program_id |-> self.program_id, accounts |-> self.accounts, data |-> self.data])

InstructionBuilder_instruction(self) ==
    IF self.data = <<>> THEN Err(MISSING_PAYLOAD)
    ELSE Ok([program_id |-> self.program_id, accounts |-> self.accounts, data |-> self.data])

(***************************************************************************)
(* Text: Display and Debug renderings, substring search.                   *)
(***************************************************************************)
HEX_DIGITS == "0123456789abcdef"

\* format!("{:x}", n)
RECURSIVE LowerHex(_)
LowerHex(n) ==
    IF n < 16 THEN SubSeq(HEX_DIGITS, n + 1, n + 1)
    ELSE LowerHex(n \div 16) \o SubSeq(HEX_DIGITS, (n % 16) + 1, (n % 16) + 1)

\* str::contains
Contains(s, pattern) ==
    \E i \in 0 .. (Len(s) - Len(pattern)) : SubSeq(s, i + 1, i + Len(pattern)) = pattern

\* [String]::join(sep)
Join(lines, sep) ==
    LET f[i \in 0 .. Len(lines)] ==
            IF i = 0 THEN ""
            ELSE IF i = 1 THEN lines[1]
            ELSE f[i - 1] \o sep \o lines[i]
    IN  f[Len(lines)]

(***************************************************************************)
(* The execution oracle (LiteSVM) and the transaction library feeding it.  *)
(* Lamports are scaled down; an absent account has -1 lamports.            *)
(***************************************************************************)
SYSTEM_PROGRAM_ID == 100
LAMPORTS_PER_SIGNATURE == 1
TRANSFER_UNITS == 150
PROGRAM_UNITS == 300

\* The programs loaded into the ledger besides the system program.
Deployed == {1}

\* Display of a Pubkey (base58 in the library).
PubkeyDisplay(pubkey) ==
    IF pubkey = SYSTEM_PROGRAM_ID THEN "11111111111111111111111111111111"
    ELSE "Key" \o ToString(pubkey)

\* The natural a little-endian byte string encodes.
FromLE(bytes) ==
    LET g[i \in 1 .. (Len(bytes) + 1)] ==
            IF i = Len(bytes) + 1 THEN 0 ELSE bytes[i] + 256 * g[i + 1]
    IN  g[1]

\* system_instruction::transfer
system_instruction_transfer(from, to, lamports) ==
    [program_id |-> SYSTEM_PROGRAM_ID,
     accounts |-> <<AccountMeta_new(from, TRUE), AccountMeta_new(to, FALSE)>>,
     data |-> LEBytes(2, 4) \o LEBytes(lamports, 8)]

\* An instruction of the deployed test program: it succeeds on code 0 and
\* fails with the custom error `code` otherwise.
program_instruction(program_id, code) ==
    [program_id |-> program_id, accounts |-> <<>>, data |-> LEBytes(code, 4)]

TransactionMetadata(logs, compute_units_consumed) ==
    [logs |-> logs, compute_units_consumed |-> compute_units_consumed]

\* solana TransactionError, as [kind, index, code]; index and code are those of
\* InstructionError(index, Custom(code)) and -1 in the other variants.
AccountNotFound == [kind |-> "AccountNotFound", index |-> -1, code |-> -1]
InsufficientFundsForFee == [kind |-> "InsufficientFundsForFee", index |-> -1, code |-> -1]
InvalidProgramForExecution == [kind |-> "InvalidProgramForExecution", index |-> -1, code |-> -1]
InstructionErrorCustom(index, code) == [kind |-> "InstructionError", index |-> index, code |-> code]

\* format!("{:?}", err)
DebugTransactionError(err) ==
    IF err.kind = "InstructionError"
    THEN "InstructionError(" \o ToString(err.index) \o ", Custom(" \o ToString(err.code) \o "))"
    ELSE err.kind

\* One instruction on the working balances: [led, logs, units, failed, code].
ProcessInstruction(led, ix) ==
    LET name == PubkeyDisplay(ix.program_id)
        invoke == "Program " \o name \o " invoke [1]"
        success == "Program " \o name \o " success"
        failure(code) == "Program " \o name \o " failed: custom program error: 0x" \o LowerHex(code)
    IN  IF ix.program_id = SYSTEM_PROGRAM_ID
        THEN LET from == ix.accounts[1].pubkey
                 to == ix.accounts[2].pubkey
                 lamports == FromLE(SubSeq(ix.data, 5, 12))
             IN  IF led[from] < lamports
                 THEN [led |-> led,
                       logs |-> <<invoke,
                                  "Transfer: insufficient lamports " \o ToString(led[from])
                                      \o ", need " \o ToString(lamports),
                                  failure(1)>>,
                       units |-> TRANSFER_UNITS, failed |-> TRUE, code |-> 1]
                 ELSE [led |-> [[led EXCEPT ![from] = @ - lamports]
                                   EXCEPT ![to] = (IF @ < 0 THEN 0 ELSE @) + lamports],
                       logs |-> <<invoke, success>>,
                       units |-> TRANSFER_UNITS, failed |-> FALSE, code |-> 0]
        ELSE LET code == FromLE(ix.data)
             IN  IF code # 0
                 THEN [led |-> led,
                       logs |-> <<invoke, "Program log: AnchorError occurred", failure(code)>>,
                       units |-> PROGRAM_UNITS, failed |-> TRUE, code |-> code]
                 ELSE [led |-> led,
                       logs |-> <<invoke, "Program log: Instruction: Initialize", success>>,
                       units |-> PROGRAM_UNITS, failed |-> FALSE, code |-> 0]

\* The instructions of a transaction in order, stopping at the first failure.
Execute(led, instructions) ==
    LET f[i \in 0 .. Len(instructions)] ==
            IF i = 0
            THEN [led |-> led, logs |-> <<>>, units |-> 0, failed |-> FALSE, at |-> 0, code |-> 0]
            ELSE IF f[i - 1].failed THEN f[i - 1]
            ELSE LET p == ProcessInstruction(f[i - 1].led, instructions[i])
                 IN  [led |-> p.led,
                      logs |-> f[i - 1].logs \o p.logs,
                      units |-> f[i - 1].units + p.units,
                      failed |-> p.failed,
                      at |-> i - 1,
                      code |-> p.code]
    IN  f[Len(instructions)]

FailedTransactionMetadata(err, meta) == [err |-> err, meta |-> meta]

\* LiteSVM::send_transaction: [res, svm], res the Result the call returns and
\* svm the ledger after it.  The payer pays for every signature; nothing of a
\* failed transaction is committed, except possibly that payment.
send_transaction(self, tx) ==
    LET fee == LAMPORTS_PER_SIGNATURE * Len(tx.signers)
        rejected(err) == [res |-> Err(FailedTransactionMetadata(err, TransactionMetadata(<<>>, 0))),
                          svm |-> self]
    IN  IF self.lamports[tx.payer] < 0 THEN rejected(AccountNotFound)
        ELSE IF self.lamports[tx.payer] < fee THEN rejected(InsufficientFundsForFee)
        ELSE IF \E i \in 1 .. Len(tx.instructions) :
                    tx.instructions[i].program_id \notin Deployed \cup {SYSTEM_PROGRAM_ID}
             THEN rejected(InvalidProgramForExecution)
        ELSE LET charged == [self.lamports EXCEPT ![tx.payer] = @ - fee]
                 run == CHOOSE r \in {Execute(l, tx.instructions) : l \in {charged}} : TRUE
                 meta == TransactionMetadata(run.logs, run.units)
             IN  IF run.failed
                 THEN [res |-> Err(FailedTransactionMetadata(
                                       InstructionErrorCustom(run.at, run.code), meta)),
                       svm |-> IF feeOnFailure THEN [self EXCEPT !.lamports = charged] ELSE self]
                 ELSE [res |-> Ok(meta), svm |-> [self EXCEPT !.lamports = run.led]]

PanickedWith(msg) == [kind |-> "panic", msg |-> msg]

\* Transaction::new_signed_with_payer: signing panics unless the keypairs are
\* exactly the signers the message requires.
Transaction_new_signed_with_payer(instructions, payer, signers) ==
    LET required == {payer} \cup
            UNION {{instructions[i].accounts[j].pubkey :
                        j \in {k \in 1 .. Len(instructions[i].accounts) :
                                  instructions[i].accounts[k].is_signer}} :
                   i \in 1 .. Len(instructions)}
    IN  IF {signers[i] : i \in 1 .. Len(signers)} # required
           \/ Cardinality(required) # Len(signers)
        THEN PanickedWith("Transaction::sign failed")
        ELSE Returned([payer |-> payer, instructions |-> instructions, signers |-> signers])

(***************************************************************************)
(* litesvm-utils/src/transaction.rs                                        *)
(***************************************************************************)
BuildError(msg) == [variant |-> "BuildError", msg |-> msg]

TransactionResult_new(result, instruction_name) ==
    [inner |-> result, instruction_name |-> instruction_name, error |-> None]

\* Faulty variant: the metadata of the failed execution is replaced by an empty one
TransactionResult_new_failed_no_meta(error, result, instruction_name) ==
    [inner |-> TransactionMetadata(<<>>, 0),
     instruction_name |-> instruction_name,
     error |-> Some(error)]

TransactionResult_new_failed(error, result, instruction_name) ==
    [inner |-> result, instruction_name |-> instruction_name, error |-> Some(error)]

is_success(self) == ~self.error.some

error(self) == self.error

logs(self) == self.inner.logs

\* Faulty variant: no compute units for a failure
compute_units_of_success(self) ==
    IF self.error.some THEN 0 ELSE self.inner.compute_units_consumed

compute_units(self) == self.inner.compute_units_consumed

has_log(self, message) ==
    \E i \in 1 .. Len(self.inner.logs) : Contains(self.inner.logs[i], message)

\* Faulty variant: the last matching line
find_log_last(self, pattern) ==
    LET matching == {i \in 1 .. Len(self.inner.logs) : Contains(self.inner.logs[i], pattern)}
    IN  IF matching = {} THEN None
        ELSE Some(self.inner.logs[CHOOSE i \in matching : \A j \in matching : j <= i])

\* Iterator::find: the first element the predicate accepts.
find_log(self, pattern) ==
    LET matching == {i \in 1 .. Len(self.inner.logs) : Contains(self.inner.logs[i], pattern)}
    IN  IF matching = {} THEN None
        ELSE Some(self.inner.logs[CHOOSE i \in matching : \A j \in matching : i <= j])

AssertSuccessMessage(self) ==
    "Transaction failed: "
        \o (IF self.error.some THEN self.error.val ELSE "Unknown error")
        \o "\nLogs:\n" \o Join(logs(self), "\n")

\* Faulty variant: the message leaves the logs out
assert_success_no_logs(self) ==
    IF ~self.error.some THEN Returned(self)
    ELSE PanickedWith("Transaction failed: " \o self.error.val)

\* Faulty variant: never fails
assert_success_lenient(self) == Returned(self)

assert_success(self) ==
    IF ~self.error.some THEN Returned(self)
    ELSE PanickedWith(AssertSuccessMessage(self))

\* Faulty variant: panics on every outcome
assert_failure_always(self) ==
    PanickedWith("Expected transaction to fail, but it succeeded.\nLogs:\n"
                     \o Join(logs(self), "\n"))

assert_failure(self) ==
    IF self.error.some THEN Returned(self)
    ELSE PanickedWith("Expected transaction to fail, but it succeeded.\nLogs:\n"
                          \o Join(logs(self), "\n"))

\* Faulty variant: any failure passes, whatever its text
assert_error_any(self, expected_error) ==
    IF self.error.some THEN Returned(self)
    ELSE PanickedWith("Expected transaction to fail with error containing '" \o expected_error
                          \o "', but it succeeded.\nLogs:\n" \o Join(logs(self), "\n"))

assert_error(self, expected_error) ==
    IF self.error.some
    THEN IF Contains(self.error.val, expected_error) THEN Returned(self)
         ELSE PanickedWith("Transaction failed with unexpected error.\nExpected substring: "
                               \o expected_error \o "\nActual error: " \o self.error.val
                               \o "\nLogs:\n" \o Join(logs(self), "\n"))
    ELSE PanickedWith("Expected transaction to fail with error containing '" \o expected_error
                          \o "', but it succeeded.\nLogs:\n" \o Join(logs(self), "\n"))

CUSTOM_ERROR_PATTERN == "custom program error: 0x"

assert_error_code(self, error_code) ==
    LET error_code_str == CUSTOM_ERROR_PATTERN \o LowerHex(error_code)
    IN  assert_error(self, error_code_str)

assert_anchor_error(self, error_name) ==
    LET failed == assert_failure(self)
        found_in_logs == \E i \in 1 .. Len(logs(self)) : Contains(logs(self)[i], error_name)
        found_in_error == IF self.error.some THEN Contains(self.error.val, error_name) ELSE FALSE
        debug_error == IF self.error.some THEN "Some(\"" \o self.error.val \o "\")" ELSE "None"
    IN  IF failed.kind = "panic" THEN failed
        ELSE IF found_in_logs \/ found_in_error THEN Returned(self)
        ELSE PanickedWith("Expected Anchor error '" \o error_name
                              \o "' not found in transaction logs or error message.\nError: "
                              \o debug_error
                              \o "\nLogs:\n" \o Join(logs(self), "\n"))

\* Faulty variant: the outcome must be a failure, as for assert_anchor_error
assert_log_error_of_failure(self, error_message) ==
    IF assert_failure(self).kind = "panic" THEN assert_failure(self)
    ELSE IF has_log(self, error_message) THEN Returned(self)
    ELSE PanickedWith("Expected error message '" \o error_message
                          \o "' not found in logs.\nLogs:\n" \o Join(logs(self), "\n"))

assert_log_error(self, error_message) ==
    IF has_log(self, error_message) THEN Returned(self)
    ELSE PanickedWith("Expected error message '" \o error_message
                          \o "' not found in logs.\nLogs:\n" \o Join(logs(self), "\n"))

\* Faulty variant: printing takes the log lines out of the outcome
print_logs_drain(self) ==
    [stdout |-> <<"=== Transaction Logs ===">> \o self.inner.logs,
     self |-> [self EXCEPT !.inner.logs = <<>>]]

\* print_logs(&self): the lines written to standard output, and the outcome
\* after the call.
print_logs(self) ==
    [stdout |-> <<"=== Transaction Logs ===">>
                    \o (IF self.instruction_name.some
                        THEN <<"Instruction: " \o self.instruction_name.val>> ELSE <<>>)
                    \o self.inner.logs
                    \o (IF self.error.some THEN <<"Error: " \o self.error.val>> ELSE <<>>)
                    \o <<"Compute Units: " \o ToString(compute_units(self)),
                         "========================">>,
     self |-> self]

inner(self) == self.inner

\* A call on the ledger: what it returns (or that it panicked), the ledger
\* after it, and the outcomes the oracle gave during it, in order.
Call(out, svmAfter, raw) == [out |-> out, svm |-> svmAfter, raw |-> raw]

\* Faulty variant: a failure of the oracle is wrapped as a success
send_transaction_result_swallow(self, transaction) ==
    LET o == send_transaction(self, transaction)
    IN  IF o.res.ok
        THEN Call(Returned(Ok(TransactionResult_new(o.res.val, None))), o.svm, <<o.res>>)
        ELSE Call(Returned(Ok(TransactionResult_new(o.res.err.meta, None))), o.svm, <<o.res>>)

send_transaction_result(self, transaction) ==
    LET o == send_transaction(self, transaction)
    IN  IF o.res.ok
        THEN Call(Returned(Ok(TransactionResult_new(o.res.val, None))), o.svm, <<o.res>>)
        ELSE Call(Returned(Ok(TransactionResult_new_failed(
                                  DebugTransactionError(o.res.err.err), o.res.err.meta, None))),
                  o.svm, <<o.res>>)

NO_SIGNERS == "No signers provided"

\* Faulty variant: the signer list is not checked; the payer defaults to the first
\* signer account of the instruction
send_instruction_unchecked(self, instruction, signers) ==
    LET payer == IF signers = <<>> THEN 0 ELSE signers[1]
        tx == Transaction_new_signed_with_payer(<<instruction>>, payer,
                  IF signers = <<>> THEN <<0>> ELSE signers)
    IN  IF tx.kind = "panic" THEN Call(tx, self, <<>>)
        ELSE send_transaction_result(self, tx.val)

send_instruction(self, instruction, signers) ==
    IF signers = <<>> THEN Call(Returned(Err(BuildError(NO_SIGNERS))), self, <<>>)
    ELSE LET tx == Transaction_new_signed_with_payer(<<instruction>>, signers[1], signers)
         IN  IF tx.kind = "panic" THEN Call(tx, self, <<>>)
             ELSE send_transaction_result(self, tx.val)

\* Faulty variant: every instruction goes out as a transaction of its own and
\* the outcome of the last one is returned
send_instructions_one_by_one(self, instructions, signers) ==
    IF signers = <<>> THEN Call(Returned(Err(BuildError(NO_SIGNERS))), self, <<>>)
    ELSE LET f[i \in 0 .. Len(instructions)] ==
                 IF i = 0
                 THEN Call(Returned(Ok(TransactionResult_new(TransactionMetadata(<<>>, 0), None))),
                           self, <<>>)
                 ELSE IF f[i - 1].out.kind = "panic" THEN f[i - 1]
                 ELSE LET before == f[i - 1]
                          one == send_instruction(before.svm, instructions[i], signers)
                      IN  Call(one.out, one.svm, before.raw \o one.raw)
         IN  f[Len(instructions)]

send_instructions(self, instructions, signers) ==
    IF signers = <<>> THEN Call(Returned(Err(BuildError(NO_SIGNERS))), self, <<>>)
    ELSE LET tx == Transaction_new_signed_with_payer(instructions, signers[1], signers)
         IN  IF tx.kind = "panic" THEN Call(tx, self, <<>>)
             ELSE send_transaction_result(self, tx.val)

(***************************************************************************)
(* Inputs.                                                                 *)
(***************************************************************************)
LongSeed == [i \in 1 .. (MAX_SEED_LEN + 1) |-> 9]
ManySeeds == [i \in 1 .. MAX_SEEDS |-> <<i>>]
\* b"test", and a seed that is too long
SeedBytes == {<<116, 101, 115, 116>>, LongSeed}
SeedLists == UNION {[1 .. n -> SeedBytes] : n \in 0 .. MaxSeedCount} \cup {ManySeeds}

\* Instruction names, as UTF-8: "make", "test", "".
Names == {<<109, 97, 107, 101>>, <<116, 101, 115, 116>>, <<>>}

MetaPool == {AccountMeta_new(0, TRUE), AccountMeta_new(3, FALSE),
             AccountMeta_new_readonly(3, FALSE)}
AccountLists == UNION {[1 .. n -> MetaPool] : n \in 0 .. MaxAccounts}

\* Arguments for build_anchor_instruction: TestArgs { value: 42 }, a unit
\* struct, a (bool, u64) pair, a value whose serialize() fails, and structs
\* with the largest u64, strings, lists, optionals and a nested record.
SerArgs ==
    LET Ty(x) == [t |-> x.t, of |-> x.of]
        U64_MAX == [t |-> "u64", of |-> <<>>, v |-> <<65535, 65535, 65535, 65535>>]
        String(bytes) == [t |-> "string", of |-> <<>>, v |-> bytes]
        Vec(ty, elements) == [t |-> "vec", of |-> <<ty>>, v |-> elements]
        Option(ty, x) == [t |-> "option", of |-> <<ty>>, v |-> x]
        Struct(fields) ==
            [t |-> "struct", of |-> [i \in 1 .. Len(fields) |-> Ty(fields[i])], v |-> fields]
        Args(fields) == [fails |-> FALSE, fields |-> fields]
    IN  <<Args(<<U64(42)>>),
         Args(<<>>),
         Args(<<Bool(TRUE), U64(0)>>),
         [fails |-> TRUE, fields |-> <<>>],
         Args(<<U64_MAX, Bool(FALSE)>>),
         Args(<<String(<<>>), U64(70000)>>),
         Args(<<String(<<104, 105>>), Vec(Ty(U64(0)), <<>>)>>),
         Args(<<Vec(Ty(U64(0)), <<U64(1), U64_MAX>>), Option(Ty(U64(0)), <<>>)>>),
         Args(<<Option(Ty(String(<<>>)), <<String(<<97>>)>>), Bool(TRUE)>>),
         Args(<<Struct(<<Bool(FALSE), String(<<97, 98>>),
                         Option(Ty(Vec(Ty(U64(0)), <<>>)), <<Vec(Ty(U64(0)), <<U64(258)>>)>>)>>),
                U64(7)>>)>>

\* Arguments for InstructionBuilder::args.
\* "test_args"
TEST_ARGS_NAME == <<116, 101, 115, 116, 95, 97, 114, 103, 115>>

DataArgs ==
    {[impl |-> "TestArgs", name |-> TEST_ARGS_NAME, fields |-> <<U64(100)>>, raw |-> <<>>],
     [impl |-> "Generated", name |-> <<109, 97, 107, 101>>, fields |-> <<U64(42)>>, raw |-> <<>>],
     [impl |-> "Generated", name |-> <<116, 101, 115, 116>>, fields |-> <<>>, raw |-> <<>>],
     [impl |-> "Raw", name |-> <<>>, fields |-> <<>>, raw |-> <<>>],
     [impl |-> "Raw", name |-> <<>>, fields |-> <<>>, raw |-> <<9>>]}

TxIdle ==
    /\ feeOnFailure = FALSE
    /\ txLast = None
    /\ sends = 0
    /\ assertLast = None
    /\ asserts = 0
    /\ made = None
    /\ held = None

EncIdle ==
    /\ encName = <<>>
    /\ discLast = None
    /\ discCalls = 0
    /\ encIn = None
    /\ builder = None
    /\ argsLog = <<>>
    /\ ixOut = None

(***************************************************************************)
(* Actions: address derivation on a ledger whose clock moves.              *)
(***************************************************************************)
NewLedger == [slot |-> 0, lamports |-> [k \in Address |-> -1]]

InitPda ==
    /\ pc = "running"
    /\ curve \in SUBSET Address
    /\ svm = NewLedger
    /\ pdaIn \in [seeds : SeedLists, program_id : ProgramIds]
    /\ pdaMem = None
    /\ pdaLast = None
    /\ warps = [sum |-> 0, last |-> -1]
    /\ EncIdle
    /\ TxIdle
    /\ env = None

PdaCall(op, res) ==
    /\ pc = "running"
    /\ pdaLast' = Some([op |-> op, slot |-> svm.slot, res |-> res])
    /\ pdaMem' = IF pdaMem.some \/ op # "derive_pda" THEN pdaMem
                 ELSE Some([op |-> op, slot |-> svm.slot, res |-> res])
    /\ pc' = IF res.kind = "panic" THEN "panicked" ELSE "running"
    /\ UNCHANGED <<env, curve, svm, pdaIn, warps, encVars, txVars>>

DerivePda == PdaCall("derive_pda", derive_pda(svm, pdaIn.seeds, pdaIn.program_id))

GetPda == PdaCall("get_pda", get_pda(svm, pdaIn.seeds, pdaIn.program_id))

GetPdaWithBump ==
    PdaCall("get_pda_with_bump", get_pda_with_bump(svm, pdaIn.seeds, pdaIn.program_id))

AdvanceSlot ==
    \E slots \in 0 .. MaxSlot :
        /\ pc = "running"
        /\ svm.slot + slots <= MaxSlot
        /\ svm' = advance_slot(svm, slots)
        /\ warps' = [sum |-> warps.sum + slots, last |-> slots]
        /\ UNCHANGED <<env, pc, curve, pdaIn, pdaMem, pdaLast, encVars, txVars>>

NextPda == DerivePda \/ GetPda \/ GetPdaWithBump \/ AdvanceSlot

SpecPda == InitPda /\ [][NextPda]_vars

(***************************************************************************)
(* Actions: the discriminator codec and the instruction encoder.           *)
(***************************************************************************)
InitEnc ==
    /\ pc = "running"
    /\ curve = {}
    /\ svm = NewLedger
    /\ pdaIn = [seeds |-> <<>>, program_id |-> 1]
    /\ pdaMem = None
    /\ pdaLast = None
    /\ warps = [sum |-> 0, last |-> -1]
    /\ encName \in Names
    /\ discLast = None
    /\ discCalls = 0
    /\ encIn = None
    /\ builder = None
    /\ argsLog = <<>>
    /\ ixOut = None
    /\ TxIdle
    /\ env = None

CalculateAnchorDiscriminator ==
    /\ pc = "running"
    /\ discCalls < MaxDiscCalls
    /\ discLast' = Some(calculate_anchor_discriminator(encName))
    /\ discCalls' = discCalls + 1
    /\ UNCHANGED <<env, pc, svm, pdaVars, encName, encIn, builder, argsLog, ixOut, txVars>>

BuildAnchorInstruction ==
    \E program_id \in ProgramIds, accounts \in AccountLists, k \in DOMAIN SerArgs :
        /\ pc = "running"
        /\ encIn = None /\ ixOut = None
        /\ ixOut' = Some([via |-> "build_anchor_instruction",
                          program_id |-> program_id,
                          accounts |-> accounts,
                          argsLog |-> <<SerArgs[k]>>,
                          res |-> build_anchor_instruction(program_id, encName, accounts,
                                                           SerArgs[k])])
        /\ UNCHANGED <<env, pc, svm, pdaVars, encName, discLast, discCalls, encIn, builder, argsLog, txVars>>

\* ctx.program().accounts(...): a new builder.  A run builds one instruction.
ProgramAccounts ==
    \E program_id \in ProgramIds, accounts \in AccountLists :
        /\ pc = "running"
        /\ encIn = None /\ ixOut = None
        /\ encIn' = Some([program_id |-> program_id, accounts |-> accounts])
        /\ builder' = Some(Program_accounts(Program_new(program_id), accounts))
        /\ UNCHANGED <<env, pc, svm, pdaVars, encName, discLast, discCalls, argsLog, ixOut, txVars>>

BuilderArgs ==
    \E args \in DataArgs :
        /\ pc = "running"
        /\ builder.some
        /\ Len(argsLog) < MaxArgsCalls
        /\ builder' = Some(InstructionBuilder_args(builder.val, args))
        /\ argsLog' = Append(argsLog, args)
        /\ UNCHANGED <<env, pc, svm, pdaVars, encName, discLast, discCalls, encIn, ixOut, txVars>>

\* .instruction() consumes the builder.
BuilderInstruction ==
    /\ pc = "running"
    /\ builder.some
    /\ ixOut' = Some([via |-> "InstructionBuilder",
                      program_id |-> encIn.val.program_id,
                      accounts |-> encIn.val.accounts,
                      argsLog |-> argsLog,
                      res |-> InstructionBuilder_instruction(builder.val)])
    /\ builder' = None
    /\ UNCHANGED <<env, pc, svm, pdaVars, encName, discLast, discCalls, encIn, argsLog, txVars>>

NextEnc ==
    \/ CalculateAnchorDiscriminator
    \/ BuildAnchorInstruction
    \/ ProgramAccounts
    \/ BuilderArgs
    \/ BuilderInstruction

SpecEnc == InitEnc /\ [][NextEnc]_vars

(***************************************************************************)
(* Claims on address derivation.                                           *)
(***************************************************************************)
LastPdaOk(ops) ==
    /\ pdaLast.some
    /\ pdaLast.val.op \in ops
    /\ pdaLast.val.res.kind = "ok"

WithBump(seeds, b) == Append(seeds, <<b>>)

OffCurveAt(b) == ~is_on_curve(Candidate(WithBump(pdaIn.seeds, b), pdaIn.program_id))

\* C1: derive_pda returns (address, bump) where bump is the highest value of
\* 255..0 whose candidate is off-curve and address is that candidate; deriving
\* again with [bump] as last seed gives the same address.  It returns whenever
\* the seeds are well-formed and some bump has an off-curve candidate.
C1_CanonicalBump ==
    /\ LastPdaOk({"derive_pda"}) =>
          LET address == pdaLast.val.res.val[1]
              bump == pdaLast.val.res.val[2]
          IN  /\ bump \in 0 .. BUMP_MAX
              /\ OffCurveAt(bump)
              /\ \A c \in (bump + 1) .. BUMP_MAX : ~OffCurveAt(c)
              /\ address = Candidate(WithBump(pdaIn.seeds, bump), pdaIn.program_id)
              /\ create_program_address(WithBump(pdaIn.seeds, bump), pdaIn.program_id)
                   = [ok |-> TRUE, address |-> address]
    /\ (/\ pdaLast.some
        /\ pdaLast.val.op = "derive_pda"
        /\ SeedsValid(WithBump(pdaIn.seeds, BUMP_MAX))
        /\ \E b \in 0 .. BUMP_MAX : OffCurveAt(b)) => pdaLast.val.res.kind = "ok"

\* C1 witness: derive_pda returned a bump below 255, the candidates above it
\* being on-curve.
C1_Witness ==
    /\ LastPdaOk({"derive_pda"})
    /\ pdaLast.val.res.val[2] < BUMP_MAX - 1
    /\ Len(pdaIn.seeds) = 2

PdaAddressOf(call) == IF call.op = "get_pda" THEN call.res.val ELSE call.res.val[1]

\* C2: every address a derivation returns (derive_pda, get_pda,
\* get_pda_with_bump) fails the curve-validity test.
C2_OffCurve ==
    LastPdaOk({"derive_pda", "get_pda", "get_pda_with_bump"}) =>
        ~is_on_curve(PdaAddressOf(pdaLast.val))

\* C2 witness: get_pda returned an address although the candidate of bump 255
\* is a curve point.
C2_Witness ==
    /\ LastPdaOk({"get_pda"})
    /\ ~OffCurveAt(BUMP_MAX)
    /\ PdaAddressOf(pdaLast.val) \in Address

\* C3: two calls of derive_pda with the same seeds and owner return the same
\* (address, bump), whatever the ledger state and whatever ran in between.
C3_Deterministic ==
    (pdaMem.some /\ pdaLast.some /\ pdaLast.val.op = "derive_pda") =>
        pdaLast.val.res = pdaMem.val.res

\* C3 witness: a second derive_pda after the clock has moved.
C3_Witness ==
    /\ pdaMem.some
    /\ LastPdaOk({"derive_pda"})
    /\ pdaLast.val.slot > pdaMem.val.slot

(***************************************************************************)
(* Actions: submissions to the oracle and assertions on their outcome.     *)
(***************************************************************************)
Transfer4 == system_instruction_transfer(0, 3, 4)
Transfer20 == system_instruction_transfer(0, 3, 20)
Initialize == program_instruction(1, 0)
Fail6000 == program_instruction(1, 6000)
Undeployed == program_instruction(2, 0)

IxPool == {Transfer4, Transfer20, Initialize, Fail6000, Undeployed}

Batches ==
    {<<>>, <<Transfer4>>, <<Fail6000>>, <<Transfer4, Transfer4>>, <<Transfer4, Transfer20>>,
     <<Transfer4, Fail6000>>, <<Initialize, Transfer4>>, <<Initialize, Undeployed>>}

SignerLists == {<<>>, <<0>>, <<3>>, <<3, 0>>, <<0, 3>>}

Funding == {-1, 1, 10}

InitTx ==
    /\ pc = "running"
    /\ curve = {}
    /\ \E b0 \in Funding, b3 \in Funding :
          svm = [slot |-> 0,
                 lamports |-> [k \in Address |-> IF k = 0 THEN b0 ELSE IF k = 3 THEN b3 ELSE -1]]
    /\ pdaIn = [seeds |-> <<>>, program_id |-> 1]
    /\ pdaMem = None
    /\ pdaLast = None
    /\ warps = [sum |-> 0, last |-> -1]
    /\ EncIdle
    /\ feeOnFailure \in BOOLEAN
    /\ txLast = None
    /\ sends = 0
    /\ assertLast = None
    /\ asserts = 0
    /\ made = None
    /\ held = None
    /\ env = None

\* One call of a submission function, with what it did to the ledger.
Submit(op, instructions, signers, call) ==
    /\ pc = "running"
    /\ sends < MaxSends
    /\ txLast' = Some([op |-> op, instructions |-> instructions, signers |-> signers,
                       pre |-> svm, raw |-> call.raw, out |-> call.out])
    /\ svm' = call.svm
    /\ sends' = sends + 1
    /\ pc' = IF call.out.kind = "panic" THEN "panicked" ELSE "running"
    /\ UNCHANGED <<env, pdaVars, encVars, feeOnFailure, assertLast, asserts, made, held>>

SendInstruction ==
    \E instruction \in IxPool, signers \in SignerLists :
        Submit("send_instruction", <<instruction>>, signers,
               send_instruction(svm, instruction, signers))

SendInstructions ==
    \E instructions \in Batches, signers \in SignerLists :
        Submit("send_instructions", instructions, signers,
               send_instructions(svm, instructions, signers))

\* The caller signs a transaction of its own and hands it over.
SendTransactionResult ==
    \E instructions \in Batches, signers \in SignerLists \ {<<>>} :
        LET tx == Transaction_new_signed_with_payer(instructions, signers[1], signers)
        IN  /\ tx.kind = "ok"
            /\ Submit("send_transaction_result", instructions, signers,
                      send_transaction_result(svm, tx.val))

\* The TransactionResult the latest submission returned, if it returned one.
HasResult == txLast.some /\ txLast.val.out.kind = "ok" /\ txLast.val.out.val.ok
TheResult == txLast.val.out.val.val

Assertion(op, arg, out) ==
    /\ pc = "running"
    /\ asserts < MaxAsserts
    /\ HasResult
    /\ assertLast' = Some([op |-> op, arg |-> arg, self |-> TheResult,
                           raw |-> txLast.val.raw[1], out |-> out])
    /\ asserts' = asserts + 1
    /\ pc' = IF out.kind = "panic" THEN "panicked" ELSE "running"
    /\ UNCHANGED <<env, svm, pdaVars, encVars, feeOnFailure, txLast, sends, made, held>>

AssertSuccess == HasResult /\ Assertion("assert_success", "", assert_success(TheResult))

NextTx == SendInstruction \/ SendInstructions \/ SendTransactionResult \/ AssertSuccess

SpecTx == InitTx /\ [][NextTx]_vars

(***************************************************************************)
(* Actions: one submission, then calls on the outcome it returned.         *)
(***************************************************************************)
ExpectedErrors == {"AccountNotFound", "Custom(", "this error does not exist", ""}

AssertError ==
    \E expected_error \in ExpectedErrors :
        HasResult /\ Assertion("assert_error", expected_error,
                               assert_error(TheResult, expected_error))

ErrorCodes == {1, 6000, 96001}

AssertErrorCode ==
    \E error_code \in ErrorCodes :
        HasResult /\ Assertion("assert_error_code", error_code,
                               assert_error_code(TheResult, error_code))

AssertFailure == HasResult /\ Assertion("assert_failure", "", assert_failure(TheResult))

ComputeUnits == HasResult /\ Assertion("compute_units", "", Returned(compute_units(TheResult)))

FirstSubmission ==
    /\ sends = 0
    /\ (SendInstruction \/ SendInstructions \/ SendTransactionResult)

NextOutcome ==
    \/ FirstSubmission
    \/ AssertSuccess
    \/ AssertFailure
    \/ AssertError
    \/ AssertErrorCode
    \/ ComputeUnits

SpecOutcome == InitTx /\ [][NextOutcome]_vars

(***************************************************************************)
(* Actions: outcomes the test constructs itself with TransactionResult::new *)
(* and TransactionResult::new_failed, and calls on them.                   *)
(***************************************************************************)
\* Display of TransactionError::InstructionError(index, Custom(code)).
DisplayCustomError(index, code) ==
    "Error processing Instruction " \o ToString(index) \o ": "
        \o CUSTOM_ERROR_PATTERN \o LowerHex(code)

\* Error texts with the custom code they carry (-1: none).
ErrorTexts ==
    {[text |-> DisplayCustomError(0, code), code |-> code] : code \in ErrorCodes}
        \cup {[text |-> DebugTransactionError(InstructionErrorCustom(0, 6000)), code |-> 6000],
              [text |-> "AccountNotFound", code |-> -1]}

Metas ==
    {TransactionMetadata(<<>>, 0),
     TransactionMetadata(<<"Program 11111111111111111111111111111111 invoke [1]",
                           "Program 11111111111111111111111111111111 success">>, TRANSFER_UNITS),
     TransactionMetadata(<<"Program Key1 invoke [1]", "Program log: AnchorError occurred",
                           "Program Key1 failed: custom program error: 0x1770">>, PROGRAM_UNITS)}

InitDirect ==
    /\ pc = "running"
    /\ curve = {}
    /\ svm = NewLedger
    /\ pdaIn = [seeds |-> <<>>, program_id |-> 1]
    /\ pdaMem = None
    /\ pdaLast = None
    /\ warps = [sum |-> 0, last |-> -1]
    /\ EncIdle
    /\ TxIdle
    /\ env = None

Construct(result, code) ==
    /\ pc = "running"
    /\ made = None
    /\ made' = Some([result |-> result, code |-> code])
    /\ UNCHANGED <<env, pc, svm, pdaVars, encVars, feeOnFailure, txLast, sends, assertLast, asserts, held>>

NewOutcome ==
    \E meta \in Metas : Construct(TransactionResult_new(meta, None), -1)

NewFailedOutcome ==
    \E e \in ErrorTexts, meta \in Metas :
        Construct(TransactionResult_new_failed(e.text, meta, None), e.code)

\* A call on the constructed outcome; no oracle stands behind it.
DirectCall(op, arg, out) ==
    /\ pc = "running"
    /\ asserts < MaxAsserts
    /\ made.some
    /\ assertLast' = Some([op |-> op, arg |-> arg, self |-> made.val.result,
                           raw |-> None, out |-> out])
    /\ asserts' = asserts + 1
    /\ pc' = IF out.kind = "panic" THEN "panicked" ELSE "running"
    /\ UNCHANGED <<env, svm, pdaVars, encVars, feeOnFailure, txLast, sends, made, held>>

DirectAssertErrorCode ==
    \E error_code \in ErrorCodes :
        made.some /\ DirectCall("assert_error_code", error_code,
                                assert_error_code(made.val.result, error_code))

LogPatterns == {"invoke", "Key1", "failed", "no such line", ""}

DirectHasLog ==
    \E message \in LogPatterns :
        made.some /\ DirectCall("has_log", message, Returned(has_log(made.val.result, message)))

DirectFindLog ==
    \E pattern \in LogPatterns :
        made.some /\ DirectCall("find_log", pattern, Returned(find_log(made.val.result, pattern)))

NextDirect ==
    \/ NewOutcome
    \/ NewFailedOutcome
    \/ DirectAssertErrorCode
    \/ DirectHasLog
    \/ DirectFindLog

SpecDirect == InitDirect /\ [][NextDirect]_vars

(***************************************************************************)
(* Actions: the test keeps the outcome of its first submission, goes on    *)
(* submitting, and calls the methods of the outcome it kept.               *)
(***************************************************************************)
\* let result = svm.send_instructions(..).unwrap();
KeepOutcome ==
    /\ pc = "running"
    /\ HasResult
    /\ held = None
    /\ held' = Some([made |-> TheResult, now |-> TheResult, raw |-> txLast.val.raw[1]])
    /\ UNCHANGED <<env, pc, svm, pdaVars, encVars, feeOnFailure, txLast, sends, assertLast,
                   asserts, made>>

LaterSubmission ==
    \E instruction \in {Transfer4, Fail6000} :
        /\ held.some
        /\ Submit("send_instruction", <<instruction>>, <<0>>,
                  send_instruction(svm, instruction, <<0>>))

\* A method call on the kept outcome: what it gave, and the outcome after it.
HeldCall(op, arg, out, after) ==
    /\ pc = "running"
    /\ asserts < MaxAsserts
    /\ held.some
    /\ assertLast' = Some([op |-> op, arg |-> arg, self |-> held.val.now,
                           raw |-> held.val.raw, out |-> out])
    /\ held' = Some([held.val EXCEPT !.now = after])
    /\ asserts' = asserts + 1
    /\ pc' = IF out.kind = "panic" THEN "panicked" ELSE "running"
    /\ UNCHANGED <<env, svm, pdaVars, encVars, feeOnFailure, txLast, sends, made>>

\* An accessor taking &self gives a value; the outcome is what the method left.
HeldAccessor ==
    /\ held.some
    /\ \/ HeldCall("is_success", "", Returned(is_success(held.val.now)), held.val.now)
       \/ HeldCall("error", "", Returned(error(held.val.now)), held.val.now)
       \/ HeldCall("logs", "", Returned(logs(held.val.now)), held.val.now)
       \/ HeldCall("has_log", "invoke", Returned(has_log(held.val.now, "invoke")),
                   held.val.now)
       \/ HeldCall("find_log", "invoke", Returned(find_log(held.val.now, "invoke")),
                   held.val.now)
       \/ HeldCall("compute_units", "", Returned(compute_units(held.val.now)), held.val.now)
       \/ HeldCall("inner", "", Returned(inner(held.val.now)), held.val.now)
       \/ HeldCall("print_logs", "", Returned(print_logs(held.val.now).stdout),
                   print_logs(held.val.now).self)

\* An assertion returning &Self: the caller goes on with what it returned.
HeldAssertion ==
    LET Go(op, arg, out) ==
            HeldCall(op, arg, out, IF out.kind = "ok" THEN out.val ELSE held.val.now)
    IN  /\ held.some
        /\ \/ Go("assert_success", "", assert_success(held.val.now))
           \/ Go("assert_failure", "", assert_failure(held.val.now))
           \/ Go("assert_error", "Custom(", assert_error(held.val.now, "Custom("))
           \/ Go("assert_error_code", 6000, assert_error_code(held.val.now, 6000))
           \/ Go("assert_anchor_error", "AnchorError",
                 assert_anchor_error(held.val.now, "AnchorError"))
           \/ Go("assert_anchor_error", "invoke", assert_anchor_error(held.val.now, "invoke"))
           \/ Go("assert_anchor_error", "Custom(", assert_anchor_error(held.val.now, "Custom("))
           \/ Go("assert_log_error", "failed", assert_log_error(held.val.now, "failed"))
           \/ Go("assert_log_error", "invoke", assert_log_error(held.val.now, "invoke"))

NextHeld ==
    \/ (sends = 0 /\ SendInstructions)
    \/ KeepOutcome
    \/ LaterSubmission
    \/ HeldAccessor
    \/ HeldAssertion

SpecHeld == InitTx /\ [][NextHeld]_vars

(***************************************************************************)
(* litesvm-utils/src/builder.rs and anchor-litesvm/src/builder.rs.         *)
(* The LiteSVM a builder owns is known by what the builder did to it:      *)
(* [programs, airdrops], the add_program calls that succeeded and the      *)
(* airdrops, each in call order.  A program is <<program_id, bytes>>; the  *)
(* oracle loads bytes that start with the ELF magic and refuses others.    *)
(***************************************************************************)
LiteSVMBuilder_new == [svm |-> [programs |-> <<>>, airdrops |-> <<>>], programs |-> <<>>]

\* Faulty variant: a program id already pending is not pushed again
LiteSVMBuilder_deploy_program_once(self, program_id, program_bytes) ==
    IF \E i \in 1 .. Len(self.programs) : self.programs[i][1] = program_id THEN self
    ELSE [self EXCEPT !.programs = Append(@, <<program_id, program_bytes>>)]

LiteSVMBuilder_deploy_program(self, program_id, program_bytes) ==
    [self EXCEPT !.programs = Append(@, <<program_id, program_bytes>>)]

\* for (program_id, program_bytes) in self.programs { add_program(..).expect(..) }
LiteSVMBuilder_build(self) ==
    LET add_program(ledger, program) ==
            IF Len(program[2]) >= 4 /\ SubSeq(program[2], 1, 4) = <<127, 69, 76, 70>>
            THEN Ok([ledger EXCEPT !.programs = Append(@, program)])
            ELSE Err("InvalidProgram")
        loop[i \in 0 .. Len(self.programs)] ==
            IF i = 0 THEN Returned(self.svm)
            ELSE IF loop[i - 1].kind = "panic" THEN loop[i - 1]
            ELSE IF add_program(loop[i - 1].val, self.programs[i]).ok
                 THEN Returned(add_program(loop[i - 1].val, self.programs[i]).val)
                 ELSE PanickedWith("Failed to add program")
    IN  loop[Len(self.programs)]

LiteSVMBuilder_build_with_programs(programs) ==
    LET chain[i \in 0 .. Len(programs)] ==
            IF i = 0 THEN LiteSVMBuilder_new
            ELSE LiteSVMBuilder_deploy_program(chain[i - 1], programs[i][1], programs[i][2])
    IN  LiteSVMBuilder_build(chain[Len(programs)])

AnchorLiteSVM_new ==
    [svm_builder |-> LiteSVMBuilder_new, primary_program_id |-> None, payer |-> None]

AnchorLiteSVM_with_payer(self, payer) == [self EXCEPT !.payer = Some(payer)]

\* Faulty variant: every call makes its program the primary one
AnchorLiteSVM_deploy_program_latest(self, program_id, program_bytes) ==
    [self EXCEPT !.primary_program_id = Some(program_id),
                 !.svm_builder = LiteSVMBuilder_deploy_program(@, program_id, program_bytes)]

AnchorLiteSVM_deploy_program(self, program_id, program_bytes) ==
    [self EXCEPT !.primary_program_id = IF @.some THEN @ ELSE Some(program_id),
                 !.svm_builder = LiteSVMBuilder_deploy_program(@, program_id, program_bytes)]

\* Faulty variant: the payer is funded whether it was given or generated
AnchorLiteSVM_build_funds_any(self, generated) ==
    LET built == LiteSVMBuilder_build(self.svm_builder)
        payer == IF self.payer.some THEN self.payer.val ELSE generated
    IN  IF ~self.primary_program_id.some
        THEN PanickedWith("No programs added. Call deploy_program() at least once.")
        ELSE IF built.kind = "panic" THEN built
        ELSE Returned([svm |-> [built.val EXCEPT !.airdrops =
                                    Append(@, <<payer, <<58368, 21515, 2, 0>>>>)],
                       program_id |-> self.primary_program_id.val,
                       payer |-> payer])

\* build(self) -> AnchorContext.  generated is the keypair Keypair::new() gives
\* when it is called.  10_000_000_000 lamports are, in 16-bit limbs lowest
\* first, <<58368, 21515, 2, 0>>.  The result is what
\* AnchorContext::new_with_payer(svm, program_id, payer) is given.
AnchorLiteSVM_build(self, generated) ==
    LET built == LiteSVMBuilder_build(self.svm_builder)
    IN  IF ~self.primary_program_id.some
        THEN PanickedWith("No programs added. Call deploy_program() at least once.")
        ELSE IF built.kind = "panic" THEN built
        ELSE IF self.payer.some
        THEN Returned([svm |-> built.val,
                       program_id |-> self.primary_program_id.val,
                       payer |-> self.payer.val])
        ELSE Returned([svm |-> [built.val EXCEPT !.airdrops =
                                    Append(@, <<generated, <<58368, 21515, 2, 0>>>>)],
                       program_id |-> self.primary_program_id.val,
                       payer |-> generated])

AnchorLiteSVM_build_with_programs(programs, generated) ==
    LET chain[i \in 0 .. Len(programs)] ==
            IF i = 0 THEN AnchorLiteSVM_new
            ELSE AnchorLiteSVM_deploy_program(chain[i - 1], programs[i][1], programs[i][2])
    IN  AnchorLiteSVM_build(chain[Len(programs)], generated)

(***************************************************************************)
(* Actions: a test sets its environment up with one of the two builders.   *)
(* env.deploys are the programs handed over so far, in call order; env.out *)
(* is what build gave, once it was called (build consumes the builder).    *)
(***************************************************************************)
BuilderStep(kind, value, deploys, out) ==
    /\ pc = "running"
    /\ env' = Some([kind |-> kind, builder |-> value, deploys |-> deploys, out |-> out])
    /\ pc' = IF out.some /\ out.val.kind = "panic" THEN "panicked" ELSE "running"
    /\ UNCHANGED <<svm, pdaVars, encVars, txVars>>

NextBuild ==
    \/ /\ env = None
       /\ BuilderStep("LiteSVMBuilder", LiteSVMBuilder_new, <<>>, None)
    \/ /\ env = None
       /\ BuilderStep("AnchorLiteSVM", AnchorLiteSVM_new, <<>>, None)
    \/ \E program_id \in ProgramIds, program_bytes \in {<<127, 69, 76, 70, 2>>, <<1, 2, 3, 4>>} :
           /\ env.some
           /\ env.val.out = None
           /\ Len(env.val.deploys) < MaxPrograms
           /\ IF env.val.kind = "LiteSVMBuilder"
              THEN BuilderStep(env.val.kind,
                               LiteSVMBuilder_deploy_program(env.val.builder, program_id,
                                                             program_bytes),
                               Append(env.val.deploys, <<program_id, program_bytes>>), None)
              ELSE BuilderStep(env.val.kind,
                               AnchorLiteSVM_deploy_program(env.val.builder, program_id,
                                                            program_bytes),
                               Append(env.val.deploys, <<program_id, program_bytes>>), None)
    \/ \E payer \in Keypairs :
           /\ env.some
           /\ env.val.out = None
           /\ env.val.kind = "AnchorLiteSVM"
           /\ BuilderStep(env.val.kind, AnchorLiteSVM_with_payer(env.val.builder, payer),
                          env.val.deploys, None)
    \/ /\ env.some
       /\ env.val.out = None
       /\ env.val.kind = "LiteSVMBuilder"
       /\ BuilderStep(env.val.kind, env.val.builder, env.val.deploys,
                      Some(LiteSVMBuilder_build(env.val.builder)))
    \/ \E generated \in {4, 5} :
           /\ env.some
           /\ env.val.out = None
           /\ env.val.kind = "AnchorLiteSVM"
           /\ BuilderStep(env.val.kind, env.val.builder, env.val.deploys,
                          Some(AnchorLiteSVM_build(env.val.builder, generated)))
    \/ \E programs \in UNION {[1 .. n -> ProgramIds \X {<<127, 69, 76, 70, 2>>}] : n \in 0 .. 2} :
           /\ env = None
           /\ BuilderStep("LiteSVMBuilder::build_with_programs", LiteSVMBuilder_new, programs,
                          Some(LiteSVMBuilder_build_with_programs(programs)))
    \/ \E programs \in UNION {[1 .. n -> ProgramIds \X {<<127, 69, 76, 70, 2>>}] : n \in 0 .. 2} :
           /\ env = None
           /\ BuilderStep("AnchorLiteSVM::build_with_programs", AnchorLiteSVM_new, programs,
                          Some(AnchorLiteSVM_build_with_programs(programs, 4)))

SpecBuild == InitDirect /\ [][NextBuild]_vars

(***************************************************************************)
(* Claims on the discriminator codec and the instruction encoder.          *)
(***************************************************************************)
\* C4: calculate_anchor_discriminator(name) is the first 8 bytes of the digest
\* of "global:" followed by name, is exactly 8 bytes long, and every call with
\* the same name returns that same value.
C4_Discriminator ==
    discLast.some =>
        /\ Len(discLast.val) = 8
        /\ \A i \in 1 .. 8 : discLast.val[i] = Sha256(GLOBAL_PREFIX \o encName)[i]
        /\ \A i \in 1 .. 8 : discLast.val[i] \in 0 .. 255

\* C4 witness: the discriminator of "make" has been computed twice.
C4_Witness ==
    /\ discLast.some
    /\ discCalls = 2
    /\ encName = <<109, 97, 107, 101>>

Built(via) == ixOut.some /\ ixOut.val.via = via /\ ixOut.val.res.ok

Prefix8(data) == SubSeq(data, 1, 8)

\* Every instruction name of the run.
KnownNames == Names \cup {a.name : a \in DataArgs}

LastArgs == ixOut.val.argsLog[Len(ixOut.val.argsLog)]

C6_AccountsPreserved ==
    /\ (ixOut.some /\ ixOut.val.res.ok) =>
          /\ ixOut.val.res.val.program_id = ixOut.val.program_id
          /\ Len(ixOut.val.res.val.accounts) = Len(ixOut.val.accounts)
          /\ \A i \in 1 .. Len(ixOut.val.accounts) :
                /\ ixOut.val.res.val.accounts[i].pubkey = ixOut.val.accounts[i].pubkey
                /\ ixOut.val.res.val.accounts[i].is_signer = ixOut.val.accounts[i].is_signer
                /\ ixOut.val.res.val.accounts[i].is_writable = ixOut.val.accounts[i].is_writable
    /\ builder.some =>
          /\ builder.val.program_id = encIn.val.program_id
          /\ builder.val.accounts = encIn.val.accounts

\* C6 witness: the builder produced an Instruction with two different account
\* references after two args() calls.
C6_Witness ==
    /\ Built("InstructionBuilder")
    /\ Len(ixOut.val.argsLog) = 2
    /\ Len(ixOut.val.accounts) = 2
    /\ ixOut.val.accounts[1] # ixOut.val.accounts[2]

\* C7: instruction() on a builder on which args() was never called fails with
\* the missing-payload error and produces no Instruction.
C7_MissingPayload ==
    (ixOut.some /\ ixOut.val.via = "InstructionBuilder" /\ ixOut.val.argsLog = <<>>) =>
        /\ ~ixOut.val.res.ok
        /\ ixOut.val.res = Err(MISSING_PAYLOAD)

\* C7 witness: a builder with accounts was finalized without args().
C7_Witness ==
    /\ ixOut.some
    /\ ixOut.val.via = "InstructionBuilder"
    /\ ixOut.val.argsLog = <<>>
    /\ ixOut.val.accounts # <<>>
    /\ ~ixOut.val.res.ok

(***************************************************************************)
(* Claims on submissions and on the assertions over their outcome.         *)
(***************************************************************************)
\* The latest submission reached the oracle; what the oracle answered.
Reached == txLast.some /\ txLast.val.raw # <<>>
Raw == txLast.val.raw[1]

\* C8: every transaction handed to the oracle yields a TransactionResult;
\* is_success() holds and error() is None exactly when the oracle accepted it;
\* otherwise error() is the oracle's error description and the logs and the
\* compute units of the failed execution are kept.  A submission whose
\* transaction could be signed reaches the oracle exactly once.
C8_Classified ==
    /\ Reached =>
          /\ Len(txLast.val.raw) = 1
          /\ HasResult
          /\ is_success(TheResult) <=> Raw.ok
          /\ (error(TheResult) = None) <=> Raw.ok
          /\ Raw.ok =>
                /\ logs(TheResult) = Raw.val.logs
                /\ compute_units(TheResult) = Raw.val.compute_units_consumed
          /\ ~Raw.ok =>
                /\ error(TheResult) = Some(DebugTransactionError(Raw.err.err))
                /\ logs(TheResult) = Raw.err.meta.logs
                /\ compute_units(TheResult) = Raw.err.meta.compute_units_consumed
    /\ (txLast.some /\ txLast.val.signers # <<>> /\ txLast.val.out.kind = "ok") => Reached

\* C8 witness: the oracle rejected the second instruction of a batch after
\* logging and consuming compute units.
C8_Witness ==
    /\ Reached
    /\ txLast.val.op = "send_instructions"
    /\ ~Raw.ok
    /\ Raw.err.err.index = 1
    /\ Raw.err.meta.logs # <<>>
    /\ Raw.err.meta.compute_units_consumed > 0
    /\ HasResult

\* C9: send_instruction and send_instructions with an empty signer list return
\* BuildError("No signers provided") without reaching the oracle, and the
\* ledger is as it was before the call.
C9_NoSigners ==
    (txLast.some /\ txLast.val.signers = <<>>
        /\ txLast.val.op \in {"send_instruction", "send_instructions"}) =>
        /\ txLast.val.out = Returned(Err(BuildError("No signers provided")))
        /\ txLast.val.raw = <<>>
        /\ svm = txLast.val.pre

\* C9 witness: a transfer a funded account could pay for was sent without
\* signers.
C9_Witness ==
    /\ txLast.some
    /\ txLast.val.signers = <<>>
    /\ txLast.val.op = "send_instruction"
    /\ txLast.val.instructions = <<Transfer4>>
    /\ svm.lamports[0] = 10
    /\ ~txLast.val.out.val.ok

\* What the latest assert_success() call did, against the oracle's outcome
\* its TransactionResult was made from.
C10_Outcome ==
    (assertLast.some /\ assertLast.val.op = "assert_success") =>
        LET self == assertLast.val.self
            raw == assertLast.val.raw
            out == assertLast.val.out
        IN  /\ (out.kind = "panic") <=> ~raw.ok
            /\ (out.kind = "panic") <=> ~is_success(self)
            /\ out.kind = "panic" =>
                  /\ Contains(out.msg, DebugTransactionError(raw.err.err))
                  /\ \A i \in 1 .. Len(raw.err.meta.logs) :
                        Contains(out.msg, raw.err.meta.logs[i])
            /\ out.kind = "ok" => out.val = self

\* C10: assert_success() panics exactly when the outcome is a failure, the
\* panic message then contains the raw error text and every log line; on a
\* success it returns the outcome itself, however often it is called, and
\* neither the outcome nor the ledger changes.
C10_AssertSuccess ==
    /\ []C10_Outcome
    /\ [][asserts' # asserts => (svm' = svm /\ txLast' = txLast /\ sends' = sends)]_vars

\* C10 witness: assert_success() panicked on a failure that left log lines.
C10_Witness ==
    /\ assertLast.some
    /\ assertLast.val.op = "assert_success"
    /\ assertLast.val.out.kind = "panic"
    /\ Len(logs(assertLast.val.self)) >= 3

(***************************************************************************)
(* Claims on the assertions and accessors of an outcome.                   *)
(***************************************************************************)
Asserted(op) == assertLast.some /\ assertLast.val.op = op

LogsWithin(msg, lines) == \A i \in 1 .. Len(lines) : Contains(msg, lines[i])

\* C11: assert_error(substring) returns exactly when the outcome is a failure
\* whose raw error text contains substring; otherwise it panics, and the
\* message holds the expected substring, the actual error text when there is
\* one, and the logs.
C11_AssertError ==
    Asserted("assert_error") =>
        LET self == assertLast.val.self
            raw == assertLast.val.raw
            out == assertLast.val.out
            expected == assertLast.val.arg
        IN  /\ (out.kind = "ok") <=>
                  (~raw.ok /\ Contains(DebugTransactionError(raw.err.err), expected))
            /\ out.kind = "ok" => out.val = self
            /\ out.kind = "panic" =>
                  /\ Contains(out.msg, expected)
                  /\ ~raw.ok =>
                        /\ Contains(out.msg, DebugTransactionError(raw.err.err))
                        /\ LogsWithin(out.msg, raw.err.meta.logs)
                  /\ raw.ok => LogsWithin(out.msg, raw.val.logs)

\* C11 witness: assert_error panicked on a failure, with log lines, whose error
\* text lacks the expected substring.
C11_Witness ==
    /\ Asserted("assert_error")
    /\ assertLast.val.out.kind = "panic"
    /\ ~assertLast.val.raw.ok
    /\ assertLast.val.arg = "AccountNotFound"
    /\ Len(logs(assertLast.val.self)) >= 3

\* C12 as stated: assert_error_code(c) returns only for a failure whose error
\* text contains "custom program error: 0x" followed by c in lowercase
\* hexadecimal, and it panics when the error text carries another code.
C12_Original ==
    (Asserted("assert_error_code") /\ made.some) =>
        LET self == assertLast.val.self
            c == assertLast.val.arg
        IN  /\ assertLast.val.out.kind = "ok" =>
                  /\ self.error.some
                  /\ Contains(self.error.val, "custom program error: 0x" \o LowerHex(c))
            /\ (self.error.some /\ made.val.code >= 0 /\ made.val.code # c) =>
                  assertLast.val.out.kind = "panic"

\* C13 as stated: after the oracle rejected a transaction with the custom
\* error c, assert_error_code(c) on the returned outcome returns.
C13_Original ==
    (Asserted("assert_error_code") /\ assertLast.val.raw # None) =>
        LET raw == assertLast.val.raw
        IN  (~raw.ok /\ raw.err.err.kind = "InstructionError"
                /\ raw.err.err.code = assertLast.val.arg) =>
                assertLast.val.out.kind = "ok"

\* What the latest assert_failure() call did.
C14_Outcome ==
    Asserted("assert_failure") =>
        LET self == assertLast.val.self
            raw == assertLast.val.raw
            out == assertLast.val.out
        IN  /\ (out.kind = "panic") <=> raw.ok
            /\ (out.kind = "panic") <=> is_success(self)
            /\ out.kind = "ok" => out.val = self

\* C14: assert_failure() panics exactly when the outcome is a success; on a
\* failure it returns the outcome, and neither the outcome nor the ledger
\* changes.
C14_AssertFailure ==
    /\ []C14_Outcome
    /\ [][asserts' # asserts => (svm' = svm /\ txLast' = txLast /\ sends' = sends)]_vars

\* C14 witness: assert_failure() returned on an execution the oracle rejected
\* and that left log lines.
C14_Witness ==
    /\ Asserted("assert_failure")
    /\ assertLast.val.out.kind = "ok"
    /\ ~assertLast.val.raw.ok
    /\ logs(assertLast.val.self) # <<>>

(***************************************************************************)
(* Claims on batches.                                                      *)
(***************************************************************************)
IsTransfer(ix) == ix.program_id = SYSTEM_PROGRAM_ID

\* What the transfers among `instructions` move into (positive) or out of
\* (negative) account k, all of them taken together.
NetFlow(instructions, k) ==
    LET amount(ix) == FromLE(SubSeq(ix.data, 5, 12))
        f[i \in 0 .. Len(instructions)] ==
            IF i = 0 THEN 0
            ELSE f[i - 1]
                 + (IF IsTransfer(instructions[i]) /\ instructions[i].accounts[2].pubkey = k
                    THEN amount(instructions[i]) ELSE 0)
                 - (IF IsTransfer(instructions[i]) /\ instructions[i].accounts[1].pubkey = k
                    THEN amount(instructions[i]) ELSE 0)
    IN  f[Len(instructions)]

Touched(instructions, k) ==
    \E i \in 1 .. Len(instructions) :
        /\ IsTransfer(instructions[i])
        /\ k \in {instructions[i].accounts[1].pubkey, instructions[i].accounts[2].pubkey}

FeeOf(call, k) ==
    IF k = call.signers[1] THEN LAMPORTS_PER_SIGNATURE * Len(call.signers) ELSE 0

\* C15: a batch sent with send_instructions reaches the oracle as one
\* transaction and yields one outcome.  On success every account shows the
\* effects of all the instructions together; on failure no account shows the
\* effect of any instruction (the payer may have paid the transaction fee).
C15_BatchAtomic ==
    (Reached /\ txLast.val.op = "send_instructions") =>
        LET call == txLast.val
        IN  /\ Len(call.raw) = 1
            /\ HasResult
            /\ is_success(TheResult) <=> Raw.ok
            /\ Raw.ok =>
                  \A k \in Address :
                      svm.lamports[k] =
                          IF call.pre.lamports[k] < 0 /\ ~Touched(call.instructions, k)
                          THEN -1
                          ELSE (IF call.pre.lamports[k] < 0 THEN 0 ELSE call.pre.lamports[k])
                                   + NetFlow(call.instructions, k) - FeeOf(call, k)
            /\ ~Raw.ok =>
                  \A k \in Address :
                      \/ svm.lamports[k] = call.pre.lamports[k]
                      \/ svm.lamports[k] = call.pre.lamports[k] - FeeOf(call, k)
            /\ svm.slot = call.pre.slot

\* C15 witness: the second transfer of a batch failed after the first one,
\* which the payer could afford.
C15_Witness ==
    /\ Reached
    /\ txLast.val.op = "send_instructions"
    /\ txLast.val.instructions = <<Transfer4, Transfer20>>
    /\ txLast.val.pre.lamports[0] = 10
    /\ ~Raw.ok
    /\ Raw.err.err.index = 1
    /\ svm.lamports[3] = txLast.val.pre.lamports[3]

(***************************************************************************)
(* Claims on the classification of failures.                               *)
(***************************************************************************)
ErrorClasses == {"account-not-found", "insufficient-funds", "program-custom-error",
                 "opaque-message"}

\* A classified error: one of the four classes, with its code or message.
IsClassified(v) == "class" \in DOMAIN v /\ v.class \in ErrorClasses

\* C16 as stated: every failure outcome carries a classified error, exactly one
\* of account-not-found, insufficient-funds, program-custom-error(code) and
\* opaque-message(string).
C16_Original ==
    (HasResult /\ ~is_success(TheResult)) =>
        \E field \in DOMAIN TheResult : IsClassified(TheResult[field])

(***************************************************************************)
(* Claims on the accessors of an outcome.                                  *)
(***************************************************************************)
\* C17: find_log(s) is the first log line (lowest index) containing s, or None
\* when no line contains s; has_log(s) is find_log(s).is_some().
C17_FindLog ==
    /\ Asserted("find_log") =>
          LET lines == assertLast.val.self.inner.logs
              s == assertLast.val.arg
              found == assertLast.val.out.val
          IN  /\ assertLast.val.out.kind = "ok"
              /\ ~found.some <=> (\A i \in 1 .. Len(lines) : ~Contains(lines[i], s))
              /\ found.some =>
                    \E i \in 1 .. Len(lines) :
                        /\ found.val = lines[i]
                        /\ Contains(lines[i], s)
                        /\ \A j \in 1 .. (i - 1) : ~Contains(lines[j], s)
    /\ Asserted("has_log") =>
          /\ assertLast.val.out.kind = "ok"
          /\ assertLast.val.out.val = find_log(assertLast.val.self, assertLast.val.arg).some

\* C17 witness: find_log found a pattern that the first and the third of three
\* log lines contain.
C17_Witness ==
    /\ Asserted("find_log")
    /\ assertLast.val.arg = "Key1"
    /\ Len(assertLast.val.self.inner.logs) = 3
    /\ assertLast.val.out.val.some
    /\ Contains(assertLast.val.self.inner.logs[3], "Key1")

\* C18: compute_units() returns, for a success and for a failure alike, the
\* compute-unit count the oracle reported for the execution, 0 included.
C18_ComputeUnits ==
    Asserted("compute_units") =>
        LET raw == assertLast.val.raw
            out == assertLast.val.out
        IN  /\ out.kind = "ok"
            /\ out.val \in Nat
            /\ raw.ok => out.val = raw.val.compute_units_consumed
            /\ ~raw.ok => out.val = raw.err.meta.compute_units_consumed

\* C18 witness: compute_units() on a failure that had consumed compute units
\* in two instructions before the oracle rejected it.
C18_Witness ==
    /\ Asserted("compute_units")
    /\ ~assertLast.val.raw.ok
    /\ assertLast.val.raw.err.err.index = 1
    /\ assertLast.val.out.val > TRANSFER_UNITS

\* C19: an outcome is as it was constructed (success or failure, error text,
\* log lines, compute units) after any calls of its accessors and of the
\* assertions that return, and after any later submission to the oracle.
C19_Immutable ==
    held.some =>
        /\ held.val.now = held.val.made
        /\ is_success(held.val.now) = held.val.raw.ok
        /\ held.val.raw.ok =>
              /\ logs(held.val.now) = held.val.raw.val.logs
              /\ compute_units(held.val.now) = held.val.raw.val.compute_units_consumed
        /\ ~held.val.raw.ok =>
              /\ error(held.val.now) = Some(DebugTransactionError(held.val.raw.err.err))
              /\ logs(held.val.now) = held.val.raw.err.meta.logs
              /\ compute_units(held.val.now) = held.val.raw.err.meta.compute_units_consumed

\* C19 witness: a kept outcome with log lines after print_logs was called on
\* it, a second call, and a later submission.
C19_Witness ==
    /\ held.some
    /\ logs(held.val.made) # <<>>
    /\ Asserted("print_logs")
    /\ asserts = 2
    /\ sends = 2

\* C20: a derivation called with a seed longer than 32 bytes, or with more
\* than 16 seeds, gives the failure InvalidSeeds back to its caller as a value.
C20_Original ==
    (pdaLast.some /\ ~SeedsValid(pdaIn.seeds)) =>
        /\ pdaLast.val.res.kind = "err"
        /\ pdaLast.val.res.err = "InvalidSeeds"

\* C21: a derivation whose search finds every candidate, for bumps 255 down
\* to 0, on the curve gives the failure NoValidBump back to its caller as a
\* value: it neither panics nor gives an address.
C21_Original ==
    (/\ pdaLast.some
     /\ SeedsValid(Append(pdaIn.seeds, <<BUMP_MAX>>))
     /\ \A bump \in 0 .. BUMP_MAX :
            is_on_curve(Candidate(Append(pdaIn.seeds, <<bump>>), pdaIn.program_id))) =>
        /\ pdaLast.val.res.kind = "err"
        /\ pdaLast.val.res.err = "NoValidBump"

\* C22: the bytes of an Instruction of build_anchor_instruction after its
\* first 8, decoded by the inverse fixed-layout decoder at the types of the
\* arguments, give the arguments back exactly and leave no byte over:
\* integers (0 and the largest u64 among them), booleans, strings, lists,
\* optionals and nested records.
C22_RoundTrip ==
    Built("build_anchor_instruction") =>
        LET fields == LastArgs.fields
            data == ixOut.val.res.val.data
            decoded == Deserialize([i \in 1 .. Len(fields) |->
                                       [t |-> fields[i].t, of |-> fields[i].of]],
                                   SubSeq(data, 9, Len(data)))
        IN  /\ decoded.ok
            /\ decoded.val = fields
            /\ decoded.rest = <<>>

\* C22 witness: a nested record holding a non-empty string and Some(list)
\* was encoded, followed by a u64.
C22_Witness ==
    /\ Built("build_anchor_instruction")
    /\ Len(LastArgs.fields) = 2
    /\ LastArgs.fields[1].t = "struct"
    /\ LastArgs.fields[1].v[3].v # <<>>
    /\ Len(ixOut.val.res.val.data) = 36

\* C23: for the same seeds and owner, get_pda gives exactly the address of
\* the pair derive_pda gives, get_pda_with_bump gives exactly that pair, and
\* each panics exactly when derive_pda does.
C23_Variants ==
    pdaLast.some =>
        LET pair == derive_pda(svm, pdaIn.seeds, pdaIn.program_id)
            res == pdaLast.val.res
        IN  /\ res.kind = pair.kind
            /\ (pdaLast.val.op = "get_pda" /\ pair.kind = "ok") => res.val = pair.val[1]
            /\ (pdaLast.val.op = "get_pda_with_bump" /\ pair.kind = "ok") => res.val = pair.val
            /\ (pdaMem.some /\ pdaLast.val.op = "get_pda") => res.val = pdaMem.val.res.val[1]
            /\ (pdaMem.some /\ pdaLast.val.op = "get_pda_with_bump") =>
                   res.val = pdaMem.val.res.val

\* C23 witness: get_pda was called after derive_pda on seeds whose search
\* went below bump 255.
C23_Witness ==
    /\ pdaMem.some
    /\ pdaLast.val.op = "get_pda"
    /\ pdaIn.seeds # <<>>
    /\ pdaMem.val.res.val[2] < BUMP_MAX
    /\ pdaLast.val.res.val = pdaMem.val.res.val[1]

\* What get_current_slot reports is the sum of the arguments advance_slot
\* was called with so far (0 on a fresh ledger).
C24_Sum == get_current_slot(svm) = warps.sum

\* C24: a fresh ledger reports slot 0; after advance_slot(n1), ...,
\* advance_slot(nk) get_current_slot() is n1 + ... + nk, each call raising
\* the slot by exactly its argument; the slot never decreases.
C24_Slots ==
    /\ []C24_Sum
    /\ [][/\ get_current_slot(svm') >= get_current_slot(svm)
          /\ warps' # warps => get_current_slot(svm') = get_current_slot(svm) + warps'.last]_vars

\* C24 witness: the slot is 2 after more than one call, the latest of them
\* advance_slot(1).
C24_Witness ==
    /\ warps.last = 1
    /\ warps.sum = 2
    /\ get_current_slot(svm) = 2

(***************************************************************************)
(* Claims on the environment builders.                                     *)
(***************************************************************************)
\* The run uses AnchorLiteSVM (chained calls or build_with_programs).
OfAnchorLiteSVM ==
    env.some /\ env.val.kind \in {"AnchorLiteSVM", "AnchorLiteSVM::build_with_programs"}

\* The run uses LiteSVMBuilder (chained calls or build_with_programs).
OfLiteSVMBuilder ==
    env.some /\ env.val.kind \in {"LiteSVMBuilder", "LiteSVMBuilder::build_with_programs"}

\* build was called and returned.
BuildReturned == env.some /\ env.val.out.some /\ env.val.out.val.kind = "ok"

\* build was called and panicked.
BuildPanicked == env.some /\ env.val.out.some /\ env.val.out.val.kind = "panic"

\* C25: in AnchorLiteSVM the first program passed to deploy_program is the
\* primary program and stays it through every later call; a context build()
\* gives has the first id of the sequence as its program id, build() never
\* reports "No programs added" after a deploy_program call, and it panics
\* with that message when no program was added.
C25_Primary ==
    OfAnchorLiteSVM =>
        /\ (env.val.kind = "AnchorLiteSVM" /\ env.val.deploys = <<>>) =>
               env.val.builder.primary_program_id = None
        /\ (env.val.kind = "AnchorLiteSVM" /\ env.val.deploys # <<>>) =>
               env.val.builder.primary_program_id = Some(env.val.deploys[1][1])
        /\ BuildReturned =>
               /\ env.val.deploys # <<>>
               /\ env.val.out.val.val.program_id = env.val.deploys[1][1]
        /\ (BuildPanicked /\ env.val.deploys # <<>>) =>
               env.val.out.val.msg = "Failed to add program"
        /\ (env.val.out.some /\ env.val.deploys = <<>>) =>
               /\ BuildPanicked
               /\ env.val.out.val.msg =
                      "No programs added. Call deploy_program() at least once."

\* C25 witness: three programs were added, the first and the last under
\* different ids, and build() gave a context.
C25_Witness ==
    /\ OfAnchorLiteSVM
    /\ BuildReturned
    /\ Len(env.val.deploys) = 3
    /\ env.val.deploys[3][1] # env.val.deploys[1][1]
    /\ env.val.out.val.val.program_id = env.val.deploys[1][1]

\* C26: in LiteSVMBuilder the pending list is exactly the programs passed to
\* deploy_program, in call order, duplicates kept; the ledger build() gives
\* has them deployed in that order; build() on an empty list, and
\* build_with_programs(&[]), give a ledger and do not panic.
C26_Pending ==
    /\ (OfLiteSVMBuilder /\ env.val.kind = "LiteSVMBuilder") =>
           env.val.builder.programs = env.val.deploys
    /\ (OfAnchorLiteSVM /\ env.val.kind = "AnchorLiteSVM") =>
           env.val.builder.svm_builder.programs = env.val.deploys
    /\ (OfLiteSVMBuilder /\ BuildReturned) =>
           /\ env.val.out.val.val.programs = env.val.deploys
           /\ env.val.out.val.val.airdrops = <<>>
    /\ (OfLiteSVMBuilder /\ env.val.out.some /\ env.val.deploys = <<>>) => BuildReturned
    /\ (OfLiteSVMBuilder /\ BuildPanicked) =>
           \E i \in 1 .. Len(env.val.deploys) :
               SubSeq(env.val.deploys[i][2], 1, 4) # <<127, 69, 76, 70>>

\* C26 witness: three programs, two of them under the same id, were
\* deployed by build() in call order.
C26_Witness ==
    /\ OfLiteSVMBuilder
    /\ BuildReturned
    /\ Len(env.val.deploys) = 3
    /\ env.val.deploys[1][1] = env.val.deploys[3][1]
    /\ env.val.deploys[1][1] # env.val.deploys[2][1]
    /\ env.val.out.val.val.programs = env.val.deploys

\* C30: the context AnchorLiteSVM::build() gives has, without with_payer, a
\* newly generated payer that one airdrop gave 10_000_000_000 lamports; with
\* with_payer(p) its payer is p and the ledger saw no airdrop, so p holds
\* nothing in it.
C30_Payer ==
    (OfAnchorLiteSVM /\ BuildReturned) =>
        LET ctx == env.val.out.val.val
            given == env.val.builder.payer
            \* limbs (16 bits each, lowest first) divided by 10000: <<quotient, remainder>>
            Div(limbs) ==
                LET r[i \in 1 .. 5] ==
                        IF i = 5 THEN 0 ELSE (r[i + 1] * 65536 + limbs[i]) % 10000
                IN  <<[i \in 1 .. 4 |-> (r[i + 1] * 65536 + limbs[i]) \div 10000], r[1]>>
            IsTenBillion(limbs) ==
                /\ Div(limbs)[2] = 0
                /\ Div(limbs)[1][3] = 0 /\ Div(limbs)[1][4] = 0
                /\ Div(limbs)[1][2] * 65536 + Div(limbs)[1][1] = 1000000
        IN  IF env.val.kind = "AnchorLiteSVM" /\ given.some
            THEN /\ ctx.payer = given.val
                 /\ ctx.svm.airdrops = <<>>
            ELSE /\ ctx.payer \notin Keypairs
                 /\ Len(ctx.svm.airdrops) = 1
                 /\ ctx.svm.airdrops[1][1] = ctx.payer
                 /\ IsTenBillion(ctx.svm.airdrops[1][2])

\* C30 witness: build() gave a context after with_payer was called.
C30_Witness ==
    /\ OfAnchorLiteSVM
    /\ BuildReturned
    /\ env.val.builder.payer.some
    /\ env.val.out.val.val.payer = env.val.builder.payer.val
    /\ env.val.out.val.val.svm.programs # <<>>

(***************************************************************************)
(* Claims on the payload of an InstructionBuilder.                         *)
(***************************************************************************)
\* The payload the args() calls of the finalized builder left: the data() of
\* the last one, or nothing when there was none.
PayloadAtFinalize ==
    IF ixOut.val.argsLog = <<>> THEN <<>> ELSE InstructionData_data(LastArgs)

\* C27: instruction() returns the missing-payload error exactly when the
\* payload is empty at that time, whether args() was never called or was
\* called with arguments whose data() is empty; otherwise it returns an
\* Instruction whose data is exactly the payload.
C27_EmptyPayload ==
    (ixOut.some /\ ixOut.val.via = "InstructionBuilder") =>
        /\ ~ixOut.val.res.ok <=> PayloadAtFinalize = <<>>
        /\ ~ixOut.val.res.ok => ixOut.val.res.err = MISSING_PAYLOAD
        /\ ixOut.val.res.ok => ixOut.val.res.val.data = PayloadAtFinalize

\* C27 witness: args() was called, with arguments whose data() is empty, and
\* instruction() returned the error.
C27_Witness ==
    /\ ixOut.some
    /\ ixOut.val.via = "InstructionBuilder"
    /\ ixOut.val.argsLog # <<>>
    /\ InstructionData_data(LastArgs) = <<>>
    /\ ixOut.val.res = Err(MISSING_PAYLOAD)

\* C28: after any args() calls on a builder its payload is the data() of the
\* last call alone, and its program id and account list are those
\* Program::accounts gave it.
C28_ArgsReplace ==
    (builder.some /\ encIn.some) =>
        /\ builder.val.data = IF argsLog = <<>> THEN <<>>
                              ELSE InstructionData_data(argsLog[Len(argsLog)])
        /\ builder.val.program_id = encIn.val.program_id
        /\ builder.val.accounts = encIn.val.accounts

\* C28 witness: args() was called twice with non-empty, different payloads on
\* a builder that has accounts.
C28_Witness ==
    /\ builder.some
    /\ Len(argsLog) = 2
    /\ InstructionData_data(argsLog[1]) # <<>>
    /\ InstructionData_data(argsLog[2]) # <<>>
    /\ InstructionData_data(argsLog[1]) # InstructionData_data(argsLog[2])
    /\ builder.val.accounts # <<>>
    /\ builder.val.data = InstructionData_data(argsLog[2])

(***************************************************************************)
(* Claims on the assertions over log lines.                                *)
(***************************************************************************)
\* Some log line of the outcome the latest call was made on contains text.
LoggedBy(text) ==
    \E i \in 1 .. Len(logs(assertLast.val.self)) : Contains(logs(assertLast.val.self)[i], text)

====
